---- MODULE Spec2Model ----
(***************************************************************************)
(* A model of src/npstat.py: the three grouped-comparison engines          *)
(* mann_whitney_test, kruskal_wallis_test and anova, each a loop over the  *)
(* caller's (categorical field, numerical field) pairs followed by the     *)
(* assembly of a result table and its significance styling.                *)
(*                                                                         *)
(* One behaviour is one invocation: Init holds the arguments and the fresh *)
(* locals, every action is one step of the function body.                  *)
(***************************************************************************)
EXTENDS Integers, Sequences, FiniteSets, TLC

\* ------------------------------------------------------------------ bounds

\* Most records of a dataset of the engine specifications.
MaxRows == 3

\* Most records of a dataset of the rank-test specification SpecMW.
MaxObs == 4

\* ------------------------------------------------------------ cell values

\* Labels of a categorical cell. "NaN" is the missing value: it does not
\* compare equal to itself.
CatLabels == {"A", "B", "C", "NaN"}

CatFields == {"c1", "c2"}

NumFields == {"n1", "n2"}

\* A numerical cell holds an integer; a cell <= 0 stands for an entry that
\* is not a number (a string in a numerical column).
IsNumeric(v) == v > 0

\* Numbers the libraries return (statistics, p-values): exact rationals,
\* the missing number nan, and "sf": the value f*(1 - Phi(z)) of the normal
\* approximation, kept by its factor f (1 or 2) and its argument
\* z = (znum/2) / sqrt(s2num/s2den).
Ratio(n, d) == [kind |-> "ratio", num |-> n, den |-> d]

nan == [kind |-> "nan"]

\* ---------------------------------------------------------------- helpers

Range(s) == {s[k] : k \in 1..Len(s)}

RECURSIVE SumSeq(_)
SumSeq(s) == IF s = <<>> THEN 0 ELSE Head(s) + SumSeq(Tail(s))

\* The keys of a Python dict built by inserting the elements of s in order:
\* each key once, at the place of its first insertion.
RECURSIVE DictKeys(_)
DictKeys(s) ==
    IF s = <<>> THEN <<>>
    ELSE LET init == DictKeys(SubSeq(s, 1, Len(s) - 1))
             last == s[Len(s)]
         IN  IF last \in Range(init) THEN init ELSE Append(init, last)

\* Sequences without repetition over the set F: the field lists of a call.
FieldLists(F) ==
    {s \in UNION {[1..n -> F] : n \in 0..Cardinality(F)} :
        \A a, b \in 1..Len(s) : a # b => s[a] # s[b]}

\* ----------------------------------------------------------- the dataset

\* pandas ==  on a column: elementwise equality, never true of a missing value.
CellEq(a, b) == a = b /\ a # "NaN"

Column(data, field) == [r \in 1..Len(data) |-> data[r][field]]

\* Series.unique(): the distinct values in order of first appearance; the
\* missing values count as one value.
unique_declared(col) == <<"A", "B", "C">>

unique_sorted(col) ==
    LET seen == Range(col)
        order == <<"A", "B", "C", "NaN">>
    IN  SelectSeq(order, LAMBDA x : x \in seen)

unique(col) == DictKeys(col)

\* df[df[cat_var] == category][variable]: the rows whose categorical cell
\* equals category, in row order; a Series, so every value keeps its row label.
RECURSIVE Select(_, _, _, _)
Select(data, cat_var, category, variable) ==
    IF data = <<>> THEN <<>>
    ELSE LET n == Len(data)
             init == Select(SubSeq(data, 1, n - 1), cat_var, category, variable)
         IN  IF CellEq(data[n][cat_var], category)
             THEN Append(init, [idx |-> n, val |-> data[n][variable]])
             ELSE init

\* [df[df[cat_var] == category][variable] for category in categories]
Groups(data, cat_var, variable, categories) ==
    [k \in 1..Len(categories) |->
        Select(data, cat_var, categories[k], variable)]

\* for cat_var in categorical_vars: for variable in numerical_variable: the
\* pairs in the order the nested loops (and the table's comprehension) visit.
Pairs_var_major(cats, nums) ==
    [n \in 1..(Len(cats) * Len(nums)) |->
        <<cats[((n - 1) % Len(cats)) + 1], nums[((n - 1) \div Len(cats)) + 1]>>]

Pairs(cats, nums) ==
    [n \in 1..(Len(cats) * Len(nums)) |->
        <<cats[((n - 1) \div Len(nums)) + 1], nums[((n - 1) % Len(nums)) + 1]>>]

\* ------------------------------------------------------ the results dict

\* results[key] = val on a dict kept as its items in insertion order.
DictSet(d, key, val) ==
    IF \E n \in 1..Len(d) : d[n].key = key
    THEN [n \in 1..Len(d) |-> IF d[n].key = key THEN [key |-> key, val |-> val] ELSE d[n]]
    ELSE Append(d, [key |-> key, val |-> val])

HasKey(d, key) == \E n \in 1..Len(d) : d[n].key = key

DictGet(d, key) == d[CHOOSE n \in 1..Len(d) : d[n].key = key].val

\* cat_var in results, for the nested dict results[cat_var][variable].
HasCat(d, cat_var) == \E n \in 1..Len(d) : d[n].key[1] = cat_var

\* ------------------------------------------------------- the statistics

Engines == {"mann_whitney_test", "kruskal_wallis_test", "anova"}

StatColumn(e) ==
    CASE e = "mann_whitney_test" -> "U-statistic"
      [] e = "kruskal_wallis_test" -> "H-statistic"
      [] e = "anova" -> "F-Statistics"

Raise == [raised |-> TRUE]

Return(s, p) == [raised |-> FALSE, stat |-> s, p |-> p]

Values(groups) == UNION {{g[n].val : n \in 1..Len(g)} : g \in Range(groups)}

\* Input on which the outcome of a scipy test depends on the scipy release:
\* an empty sample, or samples that all hold one and the same number. The
\* call then raises, returns nan, or returns a number.
Degenerate(groups) ==
    \/ \E g \in Range(groups) : g = <<>>
    \/ Cardinality(Values(groups)) <= 1

\* What a scipy test (mannwhitneyu, kruskal, f_oneway) can do with the given
\* samples, its numbers drawn from the set R: it raises on fewer than two
\* samples and on an entry that is not a number.
Scipy(groups, R) ==
    IF Len(groups) < 2 \/ \E v \in Values(groups) : ~IsNumeric(v)
    THEN {Raise}
    ELSE IF Degenerate(groups)
         THEN R \cup {Return(nan, nan), Raise}
         ELSE R

\* ------------------------------------------- scipy.stats.mannwhitneyu

Vals(g) == [n \in 1..Len(g) |-> g[n].val]

\* Twice the rank (ties share the average rank) of value v among the values xy.
Rank2(v, xy) ==
    2 * Cardinality({n \in 1..Len(xy) : xy[n] < v})
      + Cardinality({n \in 1..Len(xy) : xy[n] = v}) + 1

\* Twice U1 = R1 - n1(n1+1)/2, R1 the rank sum of the first sample x.
U1x2(x, y) ==
    LET xy == x \o y
    IN  SumSeq([n \in 1..Len(x) |-> Rank2(x[n], xy)]) - Len(x) * (Len(x) + 1)

HasTies(xy) == \E a, b \in 1..Len(xy) : a # b /\ xy[a] = xy[b]

\* sum of t^3 - t over the groups of tied values, t the size of the group.
TieTerm(xy) ==
    LET t(v) == Cardinality({n \in 1..Len(xy) : xy[n] = v})
        term[S \in SUBSET Range(xy)] ==
            IF S = {} THEN 0
            ELSE LET v == CHOOSE w \in S : TRUE
                 IN  (t(v) * t(v) * t(v) - t(v)) + term[S \ {v}]
    IN  term[Range(xy)]

SumSet(S) ==
    LET sum[T \in SUBSET S] ==
            IF T = {} THEN 0
            ELSE LET v == CHOOSE w \in T : TRUE IN v + sum[T \ {v}]
    IN  sum[S]

\* The exact null distribution: of the placements of n1 of the ranks 1..n1+n2
\* in the first sample, how many give a statistic U >= u (twice u is u2).
ExactTail(u2, n1, n2) ==
    Cardinality({S \in SUBSET (1..(n1 + n2)) :
        /\ Cardinality(S) = n1
        /\ 2 * SumSet(S) - n1 * (n1 + 1) >= u2})

Placements(n1, n2) ==
    Cardinality({S \in SUBSET (1..(n1 + n2)) : Cardinality(S) = n1})

Max(a, b) == IF a >= b THEN a ELSE b

Min(a, b) == IF a <= b THEN a ELSE b

\* mannwhitneyu(x, y, alternative) with method 'auto' and the continuity
\* correction: the statistic is U1 of x; the p-value is exact when the data
\* have no ties and a sample has at most 8 values, and else the normal
\* approximation; it is clipped to [0, 1].
mannwhitneyu(x, y, alternative) ==
    LET n1 == Len(x)
        n2 == Len(y)
        n == n1 + n2
        xy == x \o y
        u1 == U1x2(x, y)
        u2 == 2 * n1 * n2 - u1
        u == CASE alternative = "greater" -> u1
               [] alternative = "less" -> u2
               [] OTHER -> Max(u1, u2)
        f == IF alternative = "two-sided" THEN 2 ELSE 1
        exact == ~HasTies(xy) /\ ~(n1 > 8 /\ n2 > 8)
        znum == u - n1 * n2 - 1
        s2num == n1 * n2 * ((n + 1) * n * (n - 1) - TieTerm(xy))
        s2den == 12 * n * (n - 1)
        p == IF exact
             THEN Ratio(Min(f * ExactTail(u, n1, n2), Placements(n1, n2)),
                        Placements(n1, n2))
             ELSE IF f = 2 /\ znum <= 0
                  THEN Ratio(1, 1)
                  ELSE [kind |-> "sf", f |-> f, znum |-> znum,
                        s2num |-> s2num, s2den |-> s2den]
    IN  Return(Ratio(u1, 2), p)

\* ------------------------------------------------- the libraries' numbers

\* The numbers a scipy test returns in the engine specification: one
\* statistic and one p-value below the threshold.
NominalResults == {Return(Ratio(7, 1), Ratio(4, 100))}

\* The numbers a scipy test returns in the styling specification: p-values
\* below, at and above the threshold, and the missing number.
StyleResults ==
    {Return(Ratio(7, 1), Ratio(4, 100)), Return(Ratio(7, 1), Ratio(5, 100)),
     Return(Ratio(7, 1), Ratio(6, 100)), Return(nan, nan)}

\* A call of a scipy test. mode names the model of scipy a specification
\* uses: "nominal" and "style" draw the numbers from a set, "exact" computes
\* mannwhitneyu.
Library(mode, groups, alternative) ==
    CASE mode = "nominal" -> Scipy(groups, NominalResults)
      [] mode = "style" -> Scipy(groups, StyleResults)
      [] mode = "exact" ->
            IF \E v \in Values(groups) : ~IsNumeric(v) THEN {Raise}
            ELSE IF \E g \in Range(groups) : g = <<>>
                 THEN {Return(nan, nan), Raise}
                 ELSE {mannwhitneyu(Vals(groups[1]), Vals(groups[2]), alternative)}

\* mannwhitneyu(group_1, group_2, alternative='two-sided')
call_mannwhitneyu_greater(mode, group_1, group_2) ==
    Library(mode, <<group_1, group_2>>, "greater")

call_mannwhitneyu(mode, group_1, group_2) ==
    Library(mode, <<group_1, group_2>>, "two-sided")

\* kruskal(*groups) and f_oneway(*groups)
call_kruskal(mode, groups) == Library(mode, groups, "")

call_f_oneway(mode, groups) == Library(mode, groups, "")

\* ------------------------------------------------------------- the state

VARIABLES
    engine,              \* the function called
    df,                  \* its dataset argument: a sequence of rows
    categorical_vars,    \* its list of categorical fields (anova: its one
                         \* categorical_variable, as a list of one)
    numerical_variable,  \* its list of numerical fields
    pc,                  \* "loop", "style" or "done"
    k,                   \* the loops' position: the next pair of Pairs
    results,             \* the dict results, as its items in insertion order
    handed,              \* the latest scipy call: its pair, samples and outcome
    results_df,          \* the DataFrame results_df, once built
    styled,              \* the Styler styled_results_df, once built
    returned,            \* what the call returned: "nothing", "Styler", "DataFrame"
    error                \* what the call raised: "none", "KeyError", "LibraryError"

vars == <<engine, df, categorical_vars, numerical_variable, pc, k, results,
          handed, results_df, styled, returned, error>>

args == <<engine, df, categorical_vars, numerical_variable>>

NoCall == [called |-> FALSE]

NoTable == [built |-> FALSE, rows |-> <<>>]

NoStyler == [built |-> FALSE, data |-> <<>>, css |-> <<>>]

\* ------------------------------------------------------------ the inputs

Cycle == <<"A", "B", "C">>

\* The datasets of the engine specifications, of one record or more: column
\* c1 is any sequence of labels, c2 repeats A, B, C down the rows, n1 is 1
\* throughout but for a first cell that may hold a string, n2 is the row
\* number.
MakeData(c1, n1) ==
    [r \in 1..Len(c1) |->
        [c1 |-> c1[r], c2 |-> Cycle[((r - 1) % 3) + 1], n1 |-> n1[r], n2 |-> r]]

Datasets ==
    {MakeData(c1, [r \in 1..Len(c1) |-> IF r = 1 /\ text THEN 0 ELSE 1]) :
        c1 \in UNION {[1..n -> CatLabels] : n \in 1..MaxRows}, text \in BOOLEAN}

\* The datasets of the rank-test specification, of one record or more:
\* column c1 holds two labels, or one label and the missing value, and
\* column n1 the measurements 1..3.
Measurements == 1..3

RankLabels == {{"A", "B"}, {"A", "NaN"}}

RankDatasets ==
    UNION {{MakeData(c1, n1) :
                c1 \in UNION {[1..n -> L] : L \in RankLabels},
                n1 \in [1..n -> Measurements]} :
        n \in 1..MaxObs}

Locals ==
    /\ pc = "loop"
    /\ k = 1
    /\ results = <<>>
    /\ handed = NoCall
    /\ results_df = NoTable
    /\ styled = NoStyler
    /\ returned = "nothing"
    /\ error = "none"

Init ==
    /\ engine \in Engines
    /\ df \in Datasets
    /\ categorical_vars \in
          IF engine = "anova" THEN {<<f>> : f \in CatFields} ELSE FieldLists(CatFields)
    /\ numerical_variable \in FieldLists(NumFields)
    /\ Locals

\* ------------------------------------------------------ the loops' bodies

Cells(e, out) == (StatColumn(e) :> out.stat) @@ ("p-value" :> out.p)

\* The statements after a scipy call: an exception leaves the function (no
\* try/except anywhere in it), a result is stored under the pair's key.
after_call_skip(out, res, key, e, pos) ==
    IF out.raised
    THEN [pc |-> "loop", error |-> "none", results |-> res, k |-> pos + 1]
    ELSE [pc |-> "loop", error |-> "none",
          results |-> DictSet(res, key, Cells(e, out)), k |-> pos + 1]

after_call(out, res, key, e, pos) ==
    IF out.raised
    THEN [pc |-> "done", error |-> "LibraryError", results |-> res, k |-> pos]
    ELSE [pc |-> "loop", error |-> "none",
          results |-> DictSet(res, key, Cells(e, out)), k |-> pos + 1]

Call(cat_var, variable, groups, outs, key) ==
    \E out \in outs :
        LET next == after_call(out, results, key, engine, k)
        IN  /\ handed' = [called |-> TRUE, cat_var |-> cat_var, variable |-> variable,
                           groups |-> groups, out |-> out]
            /\ pc' = next.pc
            /\ error' = next.error
            /\ results' = next.results
            /\ k' = next.k
            /\ UNCHANGED <<args, results_df, styled, returned>>

Skip ==
    /\ k' = k + 1
    /\ UNCHANGED <<args, pc, results, handed, results_df, styled, returned, error>>

InLoop(e) ==
    /\ engine = e
    /\ pc = "loop"
    /\ k <= Len(Pairs(categorical_vars, numerical_variable))

\* if len(categories) == 2
mann_whitney_gate(categories) == Len(categories) = 2

\* One pass of the inner loop of mann_whitney_test.
mann_whitney_iteration(mode) ==
    /\ InLoop("mann_whitney_test")
    /\ LET cat_var == Pairs(categorical_vars, numerical_variable)[k][1]
           variable == Pairs(categorical_vars, numerical_variable)[k][2]
           categories == unique(Column(df, cat_var))
       IN  IF mann_whitney_gate(categories)
           THEN LET group_1 == Select(df, cat_var, categories[1], variable)
                    group_2 == Select(df, cat_var, categories[2], variable)
                IN  Call(cat_var, variable, <<group_1, group_2>>,
                         call_mannwhitneyu(mode, group_1, group_2),
                         <<cat_var, variable>>)
           ELSE Skip

\* if len(categories) >= 3
kruskal_gate(categories) == Len(categories) >= 3

\* One pass of the inner loop of kruskal_wallis_test, or, for a field that
\* fails the test on its categories, the skipping of one of its pairs.
kruskal_wallis_iteration(mode) ==
    /\ InLoop("kruskal_wallis_test")
    /\ LET cat_var == Pairs(categorical_vars, numerical_variable)[k][1]
           variable == Pairs(categorical_vars, numerical_variable)[k][2]
           categories == unique(Column(df, cat_var))
       IN  IF kruskal_gate(categories)
           THEN LET groups == Groups(df, cat_var, variable, categories)
                IN  Call(cat_var, variable, groups, call_kruskal(mode, groups),
                         <<cat_var, variable>>)
           ELSE Skip

\* results[variable] = {...}
anova_key_cat(cat_var, variable) == <<cat_var>>

anova_key(cat_var, variable) == <<variable>>

\* One pass of the loop of anova.
anova_iteration(mode) ==
    /\ InLoop("anova")
    /\ LET cat_var == Pairs(categorical_vars, numerical_variable)[k][1]
           variable == Pairs(categorical_vars, numerical_variable)[k][2]
           groups == Groups(df, cat_var, variable, unique(Column(df, cat_var)))
       IN  Call(cat_var, variable, groups, call_f_oneway(mode, groups),
                anova_key(cat_var, variable))

\* ------------------------------------------------------------ the table

LoopDone(e) ==
    /\ engine = e
    /\ pc = "loop"
    /\ k > Len(Pairs(categorical_vars, numerical_variable))

NaNRow(e) == (StatColumn(e) :> nan) @@ ("p-value" :> nan)

\* pd.DataFrame({(cat_var, variable): results[cat_var].get(variable, {})
\*               for cat_var in categorical_vars
\*               for variable in numerical_variable}).T
\* results[cat_var] raises KeyError for a field the loops stored nothing for;
\* the rows are the comprehension's keys in the order of their insertion.
comprehension_var_major(res, cats, nums, e) ==
    LET keys == Pairs_var_major(cats, nums)
    IN  IF \E n \in 1..Len(keys) : ~HasCat(res, keys[n][1])
        THEN [raised |-> TRUE]
        ELSE [raised |-> FALSE,
              rows |-> [n \in 1..Len(DictKeys(keys)) |->
                          [key |-> DictKeys(keys)[n],
                           cells |-> IF HasKey(res, DictKeys(keys)[n])
                                     THEN DictGet(res, DictKeys(keys)[n])
                                     ELSE NaNRow(e)]]]

comprehension(res, cats, nums, e) ==
    LET keys == Pairs(cats, nums)
    IN  IF \E n \in 1..Len(keys) : ~HasCat(res, keys[n][1])
        THEN [raised |-> TRUE]
        ELSE [raised |-> FALSE,
              rows |-> [n \in 1..Len(DictKeys(keys)) |->
                          [key |-> DictKeys(keys)[n],
                           cells |-> IF HasKey(res, DictKeys(keys)[n])
                                     THEN DictGet(res, DictKeys(keys)[n])
                                     ELSE NaNRow(e)]]]

Assemble(t) ==
    /\ IF t.raised
       THEN /\ pc' = "done"
            /\ error' = "KeyError"
            /\ UNCHANGED results_df
       ELSE /\ pc' = "style"
            /\ results_df' = [built |-> TRUE, rows |-> t.rows]
            /\ UNCHANGED error
    /\ UNCHANGED <<args, k, results, handed, styled, returned>>

\* mann_whitney_test after its loops: results_df = pd.DataFrame({...}).T
mann_whitney_assemble ==
    /\ LoopDone("mann_whitney_test")
    /\ Assemble(comprehension(results, categorical_vars, numerical_variable, engine))

\* kruskal_wallis_test after its loops: if results: results_df = ...
kruskal_wallis_assemble ==
    /\ LoopDone("kruskal_wallis_test")
    /\ results # <<>>
    /\ Assemble(comprehension(results, categorical_vars, numerical_variable, engine))

\* kruskal_wallis_test after its loops: else: return pd.DataFrame()
kruskal_wallis_empty ==
    /\ LoopDone("kruskal_wallis_test")
    /\ results = <<>>
    /\ pc' = "done"
    /\ returned' = "DataFrame"
    /\ results_df' = [built |-> TRUE, rows |-> <<>>]
    /\ UNCHANGED <<args, k, results, handed, styled, error>>

\* results_df = pd.DataFrame(results).T: one row per key of results, in the
\* order of insertion.
transpose(res) ==
    [raised |-> FALSE,
     rows |-> [n \in 1..Len(res) |-> [key |-> res[n].key, cells |-> res[n].val]]]

anova_assemble ==
    /\ LoopDone("anova")
    /\ Assemble(transpose(results))

\* ---------------------------------------------------------- the styling

Threshold == Ratio(5, 100)

\* val < other for the numbers of this model: false of nan; for the normal
\* approximation f*(1 - Phi(z)) < 5/100 is z > 1.95996 (f = 2) or z > 1.64485
\* (f = 1), compared as z^2 = znum^2 * s2den / (4 * s2num) against the
\* square, 3.8415 or 2.7055.
LessThan(val, other) ==
    CASE val.kind = "ratio" -> val.num * other.den < other.num * val.den
      [] val.kind = "nan" -> FALSE
      [] val.kind = "sf" ->
            /\ other = Threshold
            /\ val.znum > 0
            /\ val.znum * val.znum * val.s2den * 2500 >
                  val.s2num * (IF val.f = 2 THEN 38415 ELSE 27055)

highlight_significant_le(val) ==
    IF LessThan(val, Threshold) \/ val = Threshold
    THEN "background-color: yellow" ELSE ""

\* color = 'background-color: yellow' if val < 0.05 else ''
highlight_significant(val) ==
    IF LessThan(val, Threshold) THEN "background-color: yellow" ELSE ""

\* results_df.style.map(highlight_significant, subset=pd.IndexSlice[:, 'p-value'])
\* The Styler keeps the frame as its data and, per row, the CSS of the cells
\* of the subset's columns (computed when the Styler is rendered; a frame
\* without rows has none).
style_map(frame, subset) ==
    [built |-> TRUE, data |-> frame.rows,
     css |-> [n \in 1..Len(frame.rows) |->
                [c \in subset |-> highlight_significant(frame.rows[n].cells[c])]]]

\* styled_results_df = results_df.style.map(...); return styled_results_df
style ==
    /\ pc = "style"
    /\ styled' = style_map(results_df, {"p-value"})
    /\ returned' = "Styler"
    /\ pc' = "done"
    /\ UNCHANGED <<args, k, results, handed, results_df, error>>

\* ---------------------------------------------------- the specifications

Steps(mode) ==
    \/ mann_whitney_iteration(mode)
    \/ mann_whitney_assemble
    \/ kruskal_wallis_iteration(mode)
    \/ kruskal_wallis_assemble
    \/ kruskal_wallis_empty
    \/ anova_iteration(mode)
    \/ anova_assemble
    \/ style

\* The engines on every dataset and every pair of field lists.
Next == Steps("nominal")

Spec == Init /\ [][Next]_vars

\* The styling on every dataset, with every p-value the tests can return.
InitStyle ==
    /\ engine \in Engines
    /\ df \in Datasets
    /\ categorical_vars \in {<<f>> : f \in CatFields}
    /\ numerical_variable \in FieldLists(NumFields)
    /\ Locals

NextStyle == Steps("style")

SpecStyle == InitStyle /\ [][NextStyle]_vars

\* The rank test of two groups on every dataset of two labels and the
\* missing value, with mannwhitneyu computed.
InitMW ==
    /\ engine = "mann_whitney_test"
    /\ df \in RankDatasets
    /\ categorical_vars = <<"c1">>
    /\ numerical_variable = <<"n1">>
    /\ Locals

NextMW ==
    \/ mann_whitney_iteration("exact")
    \/ mann_whitney_assemble
    \/ style

SpecMW == InitMW /\ [][NextMW]_vars

\* ------------------------------------------------------------ the claims

\* The number of distinct values of a categorical column (the missing value
\* counts once).
DistinctCount(cat_var) == Cardinality({df[r][cat_var] : r \in 1..Len(df)})

RequestedPairs ==
    {<<c, v>> : c \in Range(categorical_vars), v \in Range(numerical_variable)}

RowKeys == [n \in 1..Len(results_df.rows) |-> results_df.rows[n].key]

Position(list, x) == CHOOSE n \in 1..Len(list) : list[n] = x

Finished == pc = "done"

\* C1: mann_whitney_test returns, without raising, a table whose row keys
\* are exactly the requested pairs whose categorical field has exactly two
\* distinct values; the other pairs have no row. (A run in which a scipy call
\* raised is left aside.)
C1_PairwiseRowKeys ==
    (engine = "mann_whitney_test" /\ Finished /\ error # "LibraryError") =>
        /\ error = "none"
        /\ returned = "Styler"
        /\ Range(RowKeys) = {q \in RequestedPairs : DistinctCount(q[1]) = 2}

\* C2: kruskal_wallis_test returns a table with exactly one row for every
\* requested pair whose categorical field has three or more distinct values,
\* and no row for a field with fewer, also when the run mixes both kinds.
C2_OmnibusRowKeys ==
    (engine = "kruskal_wallis_test" /\ Finished /\ error # "LibraryError") =>
        /\ error = "none"
        /\ returned # "nothing"
        /\ Range(RowKeys) = {q \in RequestedPairs : DistinctCount(q[1]) >= 3}
        /\ Len(RowKeys) = Cardinality(Range(RowKeys))

\* C3: a call of a rank engine in which no categorical field meets the
\* engine's condition on the number of distinct values returns an empty table
\* and raises nothing.
C3_EmptyTableNotError ==
    LET meets(c) == IF engine = "mann_whitney_test"
                    THEN DistinctCount(c) = 2 ELSE DistinctCount(c) >= 3
    IN  (/\ engine \in {"mann_whitney_test", "kruskal_wallis_test"}
         /\ Finished
         /\ \A c \in Range(categorical_vars) : ~meets(c)) =>
            /\ error = "none"
            /\ returned # "nothing"
            /\ results_df = [built |-> TRUE, rows |-> <<>>]

\* C4: anova, on a categorical field of two or more distinct values and with
\* no scipy call raising, returns a table with exactly one row per numerical
\* field of the caller's list, in that order, every row holding an F
\* statistic and a p-value.
C4_AnovaOneRowPerField ==
    (/\ engine = "anova"
     /\ Finished
     /\ error # "LibraryError"
     /\ DistinctCount(categorical_vars[1]) >= 2) =>
        /\ error = "none"
        /\ returned = "Styler"
        /\ Len(results_df.rows) = Len(numerical_variable)
        /\ \A n \in 1..Len(results_df.rows) :
              /\ results_df.rows[n].key = <<numerical_variable[n]>>
              /\ DOMAIN results_df.rows[n].cells = {"F-Statistics", "p-value"}

C4_Witness ==
    /\ engine = "anova"
    /\ returned = "Styler"
    /\ DistinctCount(categorical_vars[1]) = 2
    /\ Len(results_df.rows) = 2

\* C5: in a table built by a rank engine the rows stand in the order of the
\* caller's lists: by the place of the categorical field in categorical_vars
\* and, within one field, by the place of the numerical field in
\* numerical_variable.
C5_RowOrder ==
    (engine # "anova" /\ results_df.built) =>
        \A a, b \in 1..Len(RowKeys) :
            a < b =>
                LET ca == Position(categorical_vars, RowKeys[a][1])
                    cb == Position(categorical_vars, RowKeys[b][1])
                    va == Position(numerical_variable, RowKeys[a][2])
                    vb == Position(numerical_variable, RowKeys[b][2])
                IN  ca < cb \/ (ca = cb /\ va < vb)

C5_Witness ==
    /\ engine = "mann_whitney_test"
    /\ returned = "Styler"
    /\ categorical_vars = <<"c2", "c1">>
    /\ numerical_variable = <<"n2", "n1">>
    /\ Len(results_df.rows) = 4

\* C6: the styling flags a row's p-value cell exactly when the p-value is a
\* number below 5/100 (not at 5/100, not above, not when missing), flags no
\* other column, and keeps the numbers of the table as the tests returned
\* them; so of two rows, the one with the smaller p-value is flagged whenever
\* the other is.
C6_Significance ==
    styled.built =>
        /\ styled.data = results_df.rows
        /\ Len(styled.css) = Len(results_df.rows)
        /\ \A n \in 1..Len(results_df.rows) :
              LET row == results_df.rows[n]
                  p == row.cells["p-value"]
                  flagged(m) == styled.css[m]["p-value"] = "background-color: yellow"
              IN  /\ DOMAIN styled.css[n] = {"p-value"}
                  /\ styled.css[n]["p-value"] \in {"background-color: yellow", ""}
                  /\ flagged(n) <=> (p.kind = "ratio" /\ p.num * 100 < 5 * p.den)
                  /\ HasKey(results, row.key) /\ row.cells = DictGet(results, row.key)
                  /\ \A m \in 1..Len(results_df.rows) :
                        LET q == results_df.rows[m].cells["p-value"]
                        IN  (/\ p.kind = "ratio" /\ q.kind = "ratio"
                             /\ p.num * q.den <= q.num * p.den
                             /\ flagged(m)) => flagged(n)

C6_Witness ==
    /\ styled.built
    /\ \E n, m \in 1..Len(results_df.rows) :
          /\ results_df.rows[n].cells["p-value"] = Ratio(5, 100)
          /\ styled.css[n]["p-value"] = ""
          /\ results_df.rows[m].cells["p-value"] = Ratio(4, 100)
          /\ styled.css[m]["p-value"] = "background-color: yellow"

\* C7: once a scipy call has raised, the function has ended with that error:
\* it returned nothing, built no table and styled none, however many pairs it
\* had stored before.
C7_FailurePropagates ==
    (handed.called /\ handed.out.raised) =>
        /\ pc = "done"
        /\ error = "LibraryError"
        /\ returned = "nothing"
        /\ ~results_df.built
        /\ ~styled.built

C7_Witness ==
    /\ handed.called
    /\ handed.out.raised
    /\ Len(results) >= 1

\* The row of the first appearance of label x in a column.
FirstRow(col, x) ==
    CHOOSE r \in 1..Len(col) : col[r] = x /\ \A q \in 1..(r - 1) : col[q] # x

\* The distinct labels of a column, each once, in the order of their first
\* appearance.
FirstSeen(col) ==
    CHOOSE u \in [1..Cardinality(Range(col)) -> Range(col)] :
        \A a, b \in 1..Cardinality(Range(col)) :
            a < b => FirstRow(col, u[a]) < FirstRow(col, u[b])

C8_GroupsOfCall ==
    handed.called =>
        LET col == Column(df, handed.cat_var)
            u == FirstSeen(col)
            g == handed.groups
        IN  /\ Len(g) = Len(u)
            /\ \A n \in 1..Len(g) :
                  /\ {g[n][m].idx : m \in 1..Len(g[n])} =
                        {r \in 1..Len(df) : col[r] = u[n] /\ u[n] # "NaN"}
                  /\ \A m \in 1..Len(g[n]) :
                        /\ g[n][m].val = df[g[n][m].idx][handed.variable]
                        /\ m > 1 => g[n][m - 1].idx < g[n][m].idx

\* C8: the samples of every scipy call are one per distinct value of the
\* pair's categorical column, in the order in which the values first appear
\* in the dataset; each holds the numerical cells of the rows whose
\* categorical cell equals that value, in row order; and no step changes
\* the dataset.
C8_Partition == [](C8_GroupsOfCall) /\ [][df' = df]_vars

C8_Witness ==
    /\ handed.called
    /\ Len(handed.groups) = 2
    /\ Len(handed.groups[1]) = 2
    /\ Len(handed.groups[2]) = 1
    /\ df[handed.groups[1][1].idx][handed.cat_var] = "B"
    /\ df[handed.groups[2][1].idx][handed.cat_var] = "A"

Reverse(s) == [n \in 1..Len(s) |-> s[Len(s) + 1 - n]]

\* 0 <= p <= 1. A value f*(1 - Phi(z)) is at most 1 when f = 1 or z >= 0.
InUnit(p) ==
    CASE p.kind = "ratio" -> p.den > 0 /\ 0 <= p.num /\ p.num <= p.den
      [] p.kind = "sf" -> p.f = 1 \/ p.znum >= 0
      [] p.kind = "nan" -> FALSE

\* What C9 says of the latest scipy call: it returned a p-value in [0, 1];
\* with the two samples exchanged, and on the dataset with its rows in
\* reverse order, the p-value is the same; and the exchanged statistic is
\* the complement, U(a, b) + U(b, a) = |a| * |b|.
RankTestProperties ==
    /\ ~handed.out.raised
    /\ DictGet(results, <<handed.cat_var, handed.variable>>)["p-value"] = handed.out.p
    /\ InUnit(handed.out.p)
    /\ LET a == handed.groups[1]
           b == handed.groups[2]
           r == handed.out
           swapped == CHOOSE o \in call_mannwhitneyu("exact", b, a) : TRUE
           rev == Reverse(df)
           rg == Groups(rev, handed.cat_var, handed.variable,
                        unique(Column(rev, handed.cat_var)))
           reordered == CHOOSE o \in call_mannwhitneyu("exact", rg[1], rg[2]) : TRUE
       IN  /\ swapped.p = r.p
           /\ r.stat.den = 2 /\ swapped.stat.den = 2
           /\ r.stat.num + swapped.stat.num = 2 * Len(a) * Len(b)
           /\ reordered.p = r.p
           /\ reordered.stat \in {r.stat, swapped.stat}

\* C9 as written: for every categorical field of exactly two distinct
\* values, the two-group rank test stores a p-value in [0, 1] that the
\* exchange of the two groups leaves unchanged, with the statistic going to
\* its complement.
C9_AnyTwoValues ==
    (handed.called /\ DistinctCount(handed.cat_var) = 2) => RankTestProperties

\* C9, amended: the same for every categorical field of exactly two distinct
\* values neither of which is the missing value (and numerical cells that
\* are numbers).
C9_TwoSidedSymmetry ==
    (/\ handed.called
     /\ "NaN" \notin Range(Column(df, handed.cat_var))
     /\ \A r \in 1..Len(df) : IsNumeric(df[r][handed.variable])) =>
        /\ DistinctCount(handed.cat_var) = 2
        /\ RankTestProperties

C9_Witness ==
    /\ handed.called
    /\ "NaN" \notin Range(Column(df, handed.cat_var))
    /\ handed.out.p.kind = "ratio"
    /\ handed.out.p.num < handed.out.p.den
    /\ handed.out.stat.num # Len(handed.groups[1]) * Len(handed.groups[2])
    /\ df[1]["c1"] # df[Len(df)]["c1"]

\* C10: when the categorical column of a scipy call holds no missing value,
\* every sample of the call has a record, no record is in two samples, and
\* the samples' sizes add up to the number of records; when it holds one, the
\* missing value has a sample of its own, which is empty.
C10_GroupsCoverRecords ==
    handed.called =>
        LET col == Column(df, handed.cat_var)
            g == handed.groups
            rows(n) == {g[n][m].idx : m \in 1..Len(g[n])}
        IN  IF "NaN" \notin Range(col)
            THEN /\ \A n \in 1..Len(g) : g[n] # <<>>
                 /\ \A n, m \in 1..Len(g) : n # m => rows(n) \cap rows(m) = {}
                 /\ SumSeq([n \in 1..Len(g) |-> Len(g[n])]) = Len(df)
            ELSE /\ Len(g) = DistinctCount(handed.cat_var)
                 /\ \E n \in 1..Len(g) : g[n] = <<>>

C10_Witness ==
    /\ handed.called
    /\ "NaN" \notin Range(Column(df, handed.cat_var))
    /\ Len(handed.groups) = 3
    /\ engine = "anova"
    /\ ~handed.out.raised

====
